---- MODULE Spec2Model ----
(***************************************************************************)
(* Model of the HaiMessenger server: the in-memory store (storage.ts), the *)
(* shared schema (shared/schema.ts) and the relay in routes.ts (MQTT       *)
(* intake, WebSocket hub, HTTP query routes).                              *)
(*                                                                         *)
(* Scheduling.  The server runs on one Node.js event loop.  An event       *)
(* handler runs to its first await without interruption; the code after an *)
(* await on an already settled promise (every MemStorage method settles    *)
(* at once) and every .then callback is a promise job.  Promise jobs run   *)
(* in FIFO order and the loop takes no new I/O event while one is queued.  *)
(* The MQTT transport hands the packets of one network chunk to the        *)
(* 'message' listeners one after the other without waiting for the         *)
(* promise an async listener returns, so a further 'message' may be        *)
(* emitted while the jobs of earlier messages are still queued.            *)
(***************************************************************************)
EXTENDS Integers, Sequences, FiniteSets, TLC

\* ------------------------------------------------------------- bounds
MaxMsgs  == 2      \* upstream messages delivered in one behaviour
MaxConns == 2      \* WebSocket clients that ever connect
MaxUsers == 3      \* createUser calls in one behaviour

\* ---------------------------------------------------------- constants
DefaultLimit == 20                       \* routes.ts:122  "|| 20"

Handles == 1..MaxConns

VARIABLES
  sensorReadings,     \* MemStorage.sensorReadings, in Map insertion order
  currentReadingId,   \* MemStorage.currentReadingId
  users,              \* MemStorage.users, in Map insertion order
  currentUserId,      \* MemStorage.currentUserId
  wsConnections,      \* the Set<WebSocket> of routes.ts
  readyState,         \* ws.readyState of every client
  sent,               \* per client: the envelopes handed to ws.send, in order
  jobs,               \* queued promise jobs (continuations), FIFO
  res,                \* the last HTTP response
  ret,                \* what the last direct store call returned
  arrivals            \* per delivered message, in order: id stored, 0 if dropped

vars == <<sensorReadings, currentReadingId, users, currentUserId, wsConnections,
          readyState, sent, jobs, res, ret, arrivals>>

\* ------------------------------------------------------ JSON values
Undefined == [t |-> "undefined", n |-> 0]
Null      == [t |-> "null", n |-> 0]
Num(k)    == [t |-> "number", n |-> k]
Str       == [t |-> "string", n |-> 0]

\* Temperatures are carried in tenths of a degree (265 is 26.5).
Obj(a, b, c) == [kind |-> "object", suhuDHT |-> a, suhuLM35 |-> b, LED |-> c]

\* The message texts the broker delivers: text that is no JSON, the JSON
\* text null, and JSON objects.
Garbage  == [kind |-> "garbage", suhuDHT |-> Undefined, suhuLM35 |-> Undefined,
             LED |-> Undefined]
JsonNull == [kind |-> "null", suhuDHT |-> Undefined, suhuLM35 |-> Undefined,
             LED |-> Undefined]

Messages ==
  { Garbage, JsonNull,
    Obj(Num(265), Num(271), Num(2)),
    Obj(Undefined, Undefined, Undefined),
    Obj(Null, Null, Undefined),
    Obj(Str, Num(271), Num(2)),
    Obj(Num(265), Num(271), Null),
    Obj(Num(265), Num(271), Str) }

\* The JSON objects in which each field is missing or null.
AbsentOrNull ==
  {Obj(a, b, c) : a \in {Undefined, Null}, b \in {Undefined, Null},
                  c \in {Undefined, Null}}

\* -------------------------------------------------- shared/schema.ts
\* Mutant: the column is not validated at all.
AnyShapeOk(v) == TRUE

\* A nullable column without default: z.number().nullable().optional().
NullableNumberOk(v) == v.t \in {"number", "null", "undefined"}

\* A notNull column with a default: z.number().optional(); null is refused.
DefaultedNumberOk(v) == v.t \in {"number", "undefined"}

\* insertSensorReadingSchema.parse: it throws unless every field has its
\* shape; the id and timestamp keys are omitted from the schema.
insertSensorReadingSchemaOk(input) ==
  /\ NullableNumberOk(input.dhtTemperature)
  /\ NullableNumberOk(input.lm35Temperature)
  /\ DefaultedNumberOk(input.ledLevel)

\* Mutant: the fallback of ?? is forgotten.
FirstOperand(a, b) == a

\* a ?? b
Coalesce(a, b) == IF a.t \in {"null", "undefined"} THEN b ELSE a

\* ------------------------------------------------- storage.ts, readings
NoReading == [undefined |-> TRUE]

\* The id createSensorReading assigns: this.currentReadingId++ yields the
\* old value of the counter.
AssignedReadingId(counter) == counter

\* Mutant: the counter is read but not advanced.
CounterKept(counter) == counter

\* ... and leaves the counter one higher.
ReadingIdAfter(counter) == counter + 1

\* Mutant: the two temperatures are stored in each other's field.
SwappedTemperatures(id, insertReading, date) ==
  [ id              |-> id,
    dhtTemperature  |-> Coalesce(insertReading.lm35Temperature, Null),
    lm35Temperature |-> Coalesce(insertReading.dhtTemperature, Null),
    ledLevel        |-> Coalesce(insertReading.ledLevel, Num(0)),
    timestamp       |-> date ]

NewReading(id, insertReading, date) ==
  [ id              |-> id,
    dhtTemperature  |-> Coalesce(insertReading.dhtTemperature, Null),
    lm35Temperature |-> Coalesce(insertReading.lm35Temperature, Null),
    ledLevel        |-> Coalesce(insertReading.ledLevel, Num(0)),
    timestamp       |-> date ]

\* Array.prototype.sort is stable: with the comparator b.timestamp -
\* a.timestamp an element goes behind every element that is not older.
RECURSIVE InsertDesc(_, _)
InsertDesc(sorted, x) ==
  IF sorted = <<>> THEN <<x>>
  ELSE IF Head(sorted).timestamp >= x.timestamp
       THEN <<Head(sorted)>> \o InsertDesc(Tail(sorted), x)
       ELSE <<x>> \o sorted

RECURSIVE SortDesc(_)
SortDesc(s) ==
  IF s = <<>> THEN <<>>
  ELSE InsertDesc(SortDesc(SubSeq(s, 1, Len(s) - 1)), s[Len(s)])

\* Array.prototype.slice(0, end): a negative end counts from the back.
Slice0(s, end) ==
  LET e == IF end < 0
           THEN (IF Len(s) + end < 0 THEN 0 ELSE Len(s) + end)
           ELSE (IF end > Len(s) THEN Len(s) ELSE end)
  IN  SubSeq(s, 1, e)

\* Mutant: the readings are cut without being sorted.
UnsortedRecent(readings, limit) == Slice0(readings, limit)

getRecentSensorReadings(readings, limit) == Slice0(SortDesc(readings), limit)

\* Mutant: the comparison is turned around.
EarlierOf(latest, current) ==
  IF current.timestamp < latest.timestamp THEN current ELSE latest

\* The callback of reduce: the current element wins only if strictly newer.
LaterOf(latest, current) ==
  IF current.timestamp > latest.timestamp THEN current ELSE latest

RECURSIVE Reduce(_, _, _)
Reduce(s, i, latest) ==
  IF i > Len(s) THEN latest ELSE Reduce(s, i + 1, LaterOf(latest, s[i]))

getLatestSensorReading(readings) ==
  IF Len(readings) = 0 THEN NoReading ELSE Reduce(readings, 2, readings[1])

\* -------------------------------------------------------------- Init
Init ==
  /\ sensorReadings = <<>>
  /\ currentReadingId = 1
  /\ users = <<>>
  /\ currentUserId = 1
  /\ wsConnections = {}
  /\ readyState = [h \in Handles |-> "NONE"]
  /\ sent = [h \in Handles |-> <<>>]
  /\ jobs = <<>>
  /\ res = [route |-> "none"]
  /\ ret = [op |-> "none"]
  /\ arrivals = <<>>

\* ------------------------------------------------- storage.ts, users
NewUser(id, insertUser) ==
  [id |-> id, username |-> insertUser.username, password |-> insertUser.password]

\* createUser: stores under a fresh id; nothing is compared or refused.
UsersAfterCreate(us, id, insertUser) == Append(us, NewUser(id, insertUser))

NoUser == [undefined |-> TRUE]

\* Map.get(id)
getUser(us, id) ==
  IF \E i \in 1..Len(us) : us[i].id = id
  THEN us[CHOOSE i \in 1..Len(us) : us[i].id = id]
  ELSE NoUser

\* Array.prototype.find: the first match in insertion order.
getUserByUsername(us, username) ==
  LET hits == {i \in 1..Len(us) : us[i].username = username}
  IN  IF hits = {} THEN NoUser
      ELSE us[CHOOSE i \in hits : \A j \in hits : i <= j]

Usernames == {"ana", "budi"}
Passwords == {"p1", "p2"}
InsertUsers == [username : Usernames, password : Passwords]

CreateUser(insertUser) ==
  /\ Len(users) < MaxUsers
  /\ users' = UsersAfterCreate(users, currentUserId, insertUser)
  /\ currentUserId' = currentUserId + 1
  /\ ret' = [op |-> "createUser", threw |-> FALSE,
             value |-> NewUser(currentUserId, insertUser)]
  /\ UNCHANGED <<sensorReadings, currentReadingId, wsConnections, readyState,
                 sent, jobs, res, arrivals>>

GetUser(id) ==
  /\ ret' = [op |-> "getUser", threw |-> FALSE, value |-> getUser(users, id)]
  /\ UNCHANGED <<sensorReadings, currentReadingId, users, currentUserId,
                 wsConnections, readyState, sent, jobs, res, arrivals>>

GetUserByUsername(username) ==
  /\ ret' = [op |-> "getUserByUsername", threw |-> FALSE,
             value |-> getUserByUsername(users, username)]
  /\ UNCHANGED <<sensorReadings, currentReadingId, users, currentUserId,
                 wsConnections, readyState, sent, jobs, res, arrivals>>

\* ------------------------------------------------- routes.ts, envelopes
StatusEnvelope(open) ==
  [type |-> "connection_status", status |-> "connected", data |-> NoReading,
   via |-> "connect", open |-> open]

\* via (which send statement) and open (the socket's state at the call)
\* are bookkeeping; type and data are what JSON.stringify is given.
DataEnvelope(reading, via, open) ==
  [type |-> "sensor_data", status |-> "", data |-> reading, via |-> via,
   open |-> open]

\* ws.send(...) on one socket
Send(log, ws, envelope) == [log EXCEPT ![ws] = Append(@, envelope)]

\* ------------------------------------------------- routes.ts, MQTT intake
\* JSON.parse(message.toString()) throws on text that is no JSON.
JSONparseThrows(message) == message.kind = "garbage"

\* data.suhuDHT throws a TypeError when data is null.
PropertyReadThrows(message) == message.kind = "null"

SchemaInput(message) ==
  [dhtTemperature |-> message.suhuDHT, lm35Temperature |-> message.suhuLM35,
   ledLevel |-> message.LED]

\* Whether the try block leaves through catch before the store is called.
Dropped(message) ==
  \/ JSONparseThrows(message)
  \/ PropertyReadThrows(message)
  \/ ~insertSensorReadingSchemaOk(SchemaInput(message))

\* Mutant: readyState is not looked at.
AllRegistered(conns, state) == conns

\* Mutant: a socket in its closing handshake still counts as writable.
OpenOrClosing(conns, state) == {ws \in conns : state[ws] \in {"OPEN", "CLOSING"}}

\* Mutant: the test is "not yet closed" in place of "open".
NotClosed(conns, state) == {ws \in conns : state[ws] # "CLOSED"}

\* The sockets the forEach loop sends to.
BroadcastTargets(conns, state) == {ws \in conns : state[ws] = "OPEN"}

\* Mutant: the job queued last runs first.
LastJob(q) == Len(q)

\* The promise job taken next: the queue is first in, first out.
NextJob(q) == 1

RemoveAt(q, i) == SubSeq(q, 1, i - 1) \o SubSeq(q, i + 1, Len(q))

\* What new Date() may return: the clock does not run backwards, and the
\* code only compares timestamps, so a reading is stamped like the one
\* before it (same millisecond) or later.
Dates(readings) ==
  IF readings = <<>> THEN {0}
  ELSE {readings[Len(readings)].timestamp, readings[Len(readings)].timestamp + 1}

\* The 'message' listener up to its await: parse, validate, store.  The
\* rest of the listener is queued as a promise job.
MqttMessage(message, date) ==
  /\ Len(arrivals) < MaxMsgs
  /\ \A i \in 1..Len(jobs) : jobs[i].kind = "broadcast"
  /\ IF Dropped(message)
     THEN /\ arrivals' = Append(arrivals, 0)
          /\ UNCHANGED <<sensorReadings, currentReadingId, jobs>>
     ELSE LET id == AssignedReadingId(currentReadingId)
              storedReading == NewReading(id, SchemaInput(message), date)
          IN  /\ currentReadingId' = ReadingIdAfter(currentReadingId)
              /\ sensorReadings' = Append(sensorReadings, storedReading)
              /\ jobs' = Append(jobs, [kind |-> "broadcast", ws |-> 0,
                                       reading |-> storedReading])
              /\ arrivals' = Append(arrivals, id)
  /\ UNCHANGED <<users, currentUserId, wsConnections, readyState, sent,
                 res, ret>>

\* The listener after its await: the forEach over wsConnections.
BroadcastJob ==
  /\ jobs # <<>>
  /\ LET i == NextJob(jobs)
         job == jobs[i]
         targets == BroadcastTargets(wsConnections, readyState)
     IN  /\ job.kind = "broadcast"
         /\ sent' = [ws \in Handles |->
                       IF ws \in targets
                       THEN Append(sent[ws],
                                   DataEnvelope(job.reading, "broadcast",
                                                readyState[ws] = "OPEN"))
                       ELSE sent[ws]]
         /\ jobs' = RemoveAt(jobs, i)
  /\ UNCHANGED <<sensorReadings, currentReadingId, users, currentUserId,
                 wsConnections, readyState, res, ret, arrivals>>

\* ------------------------------------------------- routes.ts, WebSocket hub
\* wss.on('connection'): register, send the status, start the fetch.  The
\* store answers the fetch when it is called; the .then callback is queued.
WsConnect(ws) ==
  /\ readyState[ws] = "NONE"
  /\ jobs = <<>>
  /\ readyState' = [readyState EXCEPT ![ws] = "OPEN"]
  /\ wsConnections' = wsConnections \cup {ws}
  /\ sent' = Send(sent, ws, StatusEnvelope(TRUE))
  /\ jobs' = Append(jobs, [kind |-> "snapshot", ws |-> ws,
                           reading |-> getLatestSensorReading(sensorReadings)])
  /\ UNCHANGED <<sensorReadings, currentReadingId, users, currentUserId,
                 res, ret, arrivals>>

\* Mutant: the envelope is sent without looking at the fetch's result.
AlwaysSends(reading) == TRUE

\* if (reading): undefined is the only falsy value the store returns.
SnapshotSends(reading) == reading # NoReading

\* The .then callback of the fetch.
SnapshotJob ==
  /\ jobs # <<>>
  /\ LET i == NextJob(jobs)
         job == jobs[i]
     IN  /\ job.kind = "snapshot"
         /\ sent' = IF SnapshotSends(job.reading)
                    THEN Send(sent, job.ws,
                              DataEnvelope(job.reading, "snapshot",
                                           readyState[job.ws] = "OPEN"))
                    ELSE sent
         /\ jobs' = RemoveAt(jobs, i)
  /\ UNCHANGED <<sensorReadings, currentReadingId, users, currentUserId,
                 wsConnections, readyState, res, ret, arrivals>>

\* Mutant: the listener logs and forgets to deregister.
DeleteNothing(conns, ws) == conns

\* wsConnections.delete(ws): Set.delete of an absent element changes nothing.
SetDelete(conns, ws) == conns \ {ws}

\* The transport starts the closing handshake: readyState leaves OPEN
\* before any listener of routes.ts runs.
WsClosing(ws) ==
  /\ readyState[ws] = "OPEN"
  /\ jobs = <<>>
  /\ readyState' = [readyState EXCEPT ![ws] = "CLOSING"]
  /\ UNCHANGED <<sensorReadings, currentReadingId, users, currentUserId,
                 wsConnections, sent, jobs, res, ret, arrivals>>

\* ws.on('close')
WsClose(ws) ==
  /\ readyState[ws] \in {"OPEN", "CLOSING"}
  /\ jobs = <<>>
  /\ readyState' = [readyState EXCEPT ![ws] = "CLOSED"]
  /\ wsConnections' = SetDelete(wsConnections, ws)
  /\ UNCHANGED <<sensorReadings, currentReadingId, users, currentUserId,
                 sent, jobs, res, ret, arrivals>>

\* ws.on('error'): the transport marks a socket that is not yet closed
\* CLOSING, then emits.  The listener stays attached, so it may also run
\* again, or after 'close'.
WsError(ws) ==
  /\ readyState[ws] # "NONE"
  /\ jobs = <<>>
  /\ readyState' = [readyState EXCEPT
                      ![ws] = IF @ = "CLOSED" THEN "CLOSED" ELSE "CLOSING"]
  /\ wsConnections' = SetDelete(wsConnections, ws)
  /\ UNCHANGED <<sensorReadings, currentReadingId, users, currentUserId,
                 sent, jobs, res, ret, arrivals>>

\* ------------------------------------------------- routes.ts, HTTP routes
\* A query string is a sequence of characters; NoParam is a request
\* without the parameter.
NoParam == <<"undefined">>
Digits == {"0", "1", "2", "3", "4", "5", "6", "7", "8", "9"}
DigitValue(c) ==
  CASE c = "0" -> 0 [] c = "1" -> 1 [] c = "2" -> 2 [] c = "3" -> 3
    [] c = "4" -> 4 [] c = "5" -> 5 [] c = "6" -> 6 [] c = "7" -> 7
    [] c = "8" -> 8 [] c = "9" -> 9

\* The value of the longest run of digits from position i on.
RECURSIVE DigitRun(_, _, _)
DigitRun(s, i, acc) ==
  IF i <= Len(s) /\ s[i] \in Digits
  THEN DigitRun(s, i + 1, 10 * acc + DigitValue(s[i]))
  ELSE acc

\* parseInt(string): an optional sign, then the leading digits; NaN when
\* there is none.
parseInt(s) ==
  LET signed == s # <<>> /\ s[1] \in {"-", "+"}
      first  == IF signed THEN 2 ELSE 1
      any    == first <= Len(s) /\ s[first] \in Digits
      value  == DigitRun(s, first, 0)
  IN  IF ~any THEN [nan |-> TRUE, n |-> 0]
      ELSE [nan |-> FALSE, n |-> IF signed /\ s[1] = "-" THEN 0 - value ELSE value]

\* parseInt(req.query.limit) || 20: NaN and 0 are falsy.
LimitOf(query) ==
  LET p == parseInt(query)
  IN  IF p.nan \/ p.n = 0 THEN DefaultLimit ELSE p.n

Queries ==
  { NoParam, <<"a", "b">>, <<"0">>, <<"-", "1">>, <<"-", "2">>, <<"1">>,
    <<"2">>, <<"2", "x">> }

\* GET /api/readings/recent.  The handler's await is on a settled promise
\* and nothing can run before its continuation, so it is one step.  In the
\* response, limit (the argument given to the store) and at (the number of
\* readings stored when it was served) are bookkeeping.
GetRecent(query) ==
  /\ jobs = <<>>
  /\ res' = [route |-> "recent", query |-> query, limit |-> LimitOf(query),
             at |-> Len(sensorReadings), status |-> 200,
             body |-> getRecentSensorReadings(sensorReadings, LimitOf(query))]
  /\ UNCHANGED <<sensorReadings, currentReadingId, users, currentUserId,
                 wsConnections, readyState, sent, jobs, ret, arrivals>>

\* GET /api/readings/latest
GetLatest ==
  /\ jobs = <<>>
  /\ LET reading == getLatestSensorReading(sensorReadings)
     IN  res' = IF reading # NoReading
                THEN [route |-> "latest", query |-> NoParam, limit |-> 0,
                      at |-> Len(sensorReadings), status |-> 200,
                      body |-> <<reading>>]
                ELSE [route |-> "latest", query |-> NoParam, limit |-> 0,
                      at |-> Len(sensorReadings), status |-> 404,
                      body |-> <<>>]
  /\ UNCHANGED <<sensorReadings, currentReadingId, users, currentUserId,
                 wsConnections, readyState, sent, jobs, ret, arrivals>>

\* ------------------------------------------------- a store that fails
\* Every IStorage method returns a promise, and each handler awaits it in a
\* try block.  MemStorage never rejects; the actions below are the handlers
\* under a store whose promise rejects, leaving the store as it was.

\* Mutant: the failure is swallowed and an empty list is served.
EmptyResponse(error) == [status |-> 200, body |-> <<>>]

\* res.status(500).json({ error })
ErrorResponse(error) == [status |-> 500, body |-> [error |-> error]]

\* The 'message' listener when createSensorReading rejects: the catch block
\* logs.  In arrivals the message counts as -1.
MqttMessageStoreRejects(message) ==
  /\ Len(arrivals) < MaxMsgs
  /\ \A i \in 1..Len(jobs) : jobs[i].kind = "broadcast"
  /\ ~Dropped(message)
  /\ arrivals' = Append(arrivals, -1)
  /\ UNCHANGED <<sensorReadings, currentReadingId, users, currentUserId,
                 wsConnections, readyState, sent, jobs, res, ret>>

\* GET /api/readings/recent when getRecentSensorReadings rejects.
GetRecentStoreRejects(query) ==
  /\ jobs = <<>>
  /\ LET response == ErrorResponse("Failed to fetch readings")
     IN  res' = [route |-> "recent", query |-> query, limit |-> LimitOf(query),
                 at |-> Len(sensorReadings), status |-> response.status,
                 body |-> response.body]
  /\ UNCHANGED <<sensorReadings, currentReadingId, users, currentUserId,
                 wsConnections, readyState, sent, jobs, ret, arrivals>>

\* GET /api/readings/latest when getLatestSensorReading rejects.
GetLatestStoreRejects ==
  /\ jobs = <<>>
  /\ LET response == ErrorResponse("Failed to fetch latest reading")
     IN  res' = [route |-> "latest", query |-> NoParam, limit |-> 0,
                 at |-> Len(sensorReadings), status |-> response.status,
                 body |-> response.body]
  /\ UNCHANGED <<sensorReadings, currentReadingId, users, currentUserId,
                 wsConnections, readyState, sent, jobs, ret, arrivals>>

\* ------------------------------------------------------ specifications
\* The relay: MQTT intake and WebSocket hub.
Next ==
  \/ \E message \in Messages : \E date \in Dates(sensorReadings) :
       MqttMessage(message, date)
  \/ BroadcastJob
  \/ SnapshotJob
  \/ \E ws \in Handles : WsConnect(ws)
  \/ \E ws \in Handles : WsClosing(ws)
  \/ \E ws \in Handles : WsClose(ws)
  \/ \E ws \in Handles : WsError(ws)

Spec == Init /\ [][Next]_vars

\* The HTTP routes over a store that the intake fills, with live clients
\* that connect and stay.
QueryNext ==
  \/ \E message \in Messages : \E date \in Dates(sensorReadings) :
       MqttMessage(message, date)
  \/ BroadcastJob
  \/ SnapshotJob
  \/ \E ws \in Handles : WsConnect(ws)
  \/ \E query \in Queries : GetRecent(query)
  \/ GetLatest

QuerySpec == Init /\ [][QueryNext]_vars

\* The intake and the routes over a store that may reject any call made
\* by the 'message' listener or by a route.
FailingStoreNext ==
  \/ \E message \in {Garbage, Obj(Num(265), Num(271), Num(2))} :
       \E date \in Dates(sensorReadings) : MqttMessage(message, date)
  \/ \E message \in {Garbage, Obj(Num(265), Num(271), Num(2))} :
       MqttMessageStoreRejects(message)
  \/ BroadcastJob
  \/ SnapshotJob
  \/ \E ws \in Handles : WsConnect(ws)
  \/ \E query \in {NoParam, <<"1">>} : GetRecent(query)
  \/ \E query \in {NoParam, <<"1">>} : GetRecentStoreRejects(query)
  \/ GetLatest
  \/ GetLatestStoreRejects

FailingStoreSpec == Init /\ [][FailingStoreNext]_vars

\* The relay fed with messages that leave fields out, among full ones, and
\* clients that connect and stay.
AbsentFieldsNext ==
  \/ \E message \in AbsentOrNull \cup {Obj(Num(265), Num(271), Num(2))} :
       \E date \in Dates(sensorReadings) : MqttMessage(message, date)
  \/ BroadcastJob
  \/ SnapshotJob
  \/ \E ws \in Handles : WsConnect(ws)

AbsentFieldsSpec == Init /\ [][AbsentFieldsNext]_vars

\* The user store alone: no route of routes.ts reaches it.
UserNext ==
  \/ \E insertUser \in InsertUsers : CreateUser(insertUser)
  \/ \E id \in 1..MaxUsers : GetUser(id)
  \/ \E username \in Usernames : GetUserByUsername(username)

UserSpec == Init /\ [][UserNext]_vars

\* ------------------------------------------------------------- claims
Range(s) == {s[i] : i \in 1..Len(s)}

\* The readings stored when n had been created: nothing is ever removed.
StoreAt(n) == SubSeq(sensorReadings, 1, n)

Min(a, b) == IF a < b THEN a ELSE b
Max(a, b) == IF a > b THEN a ELSE b

HasMaxStamp(r, s) == \A i \in 1..Len(s) : s[i].timestamp <= r.timestamp

\* C4: createSensorReading returns an id strictly greater than every id
\* assigned before, so the stored ids are pairwise distinct, ascend in
\* creation order, and the counter stays above all of them (no reuse).
C4_IdsStrictlyIncreasing ==
  /\ \A i, j \in 1..Len(sensorReadings) :
       i < j => sensorReadings[i].id < sensorReadings[j].id
  /\ \A i \in 1..Len(sensorReadings) : sensorReadings[i].id < currentReadingId
  /\ \A i \in 1..Len(jobs) :
       jobs[i].kind = "broadcast" => jobs[i].reading \in Range(sensorReadings)

C4_Witness ==
  /\ Len(sensorReadings) >= 2
  /\ sensorReadings[2].id > sensorReadings[1].id

\* C5: getLatestSensorReading returns absent on an empty store and otherwise
\* a stored reading whose timestamp is the maximum of all stored ones, ties
\* included; the latest route answers with exactly that.
C5_LatestHasMaxTimestamp ==
  /\ LET r == getLatestSensorReading(sensorReadings)
     IN  IF Len(sensorReadings) = 0
         THEN r = NoReading
         ELSE r \in Range(sensorReadings) /\ HasMaxStamp(r, sensorReadings)
  /\ res.route = "latest" =>
       IF res.at = 0
       THEN res.status = 404 /\ res.body = <<>>
       ELSE /\ res.status = 200
            /\ Len(res.body) = 1
            /\ res.body[1] \in Range(StoreAt(res.at))
            /\ HasMaxStamp(res.body[1], StoreAt(res.at))

\* Two readings share the newest timestamp and the route has answered.
C5_Witness ==
  /\ res.route = "latest"
  /\ res.status = 200
  /\ res.at >= 2
  /\ \E i, j \in 1..res.at :
       /\ i # j
       /\ sensorReadings[i].timestamp = sensorReadings[j].timestamp
       /\ HasMaxStamp(sensorReadings[i], StoreAt(res.at))

\* C10: createUser with a username that is already stored fails, so no two
\* stored users share a username (getUserByUsername has at most one match).
C10_UsernamesUnique ==
  \A i, j \in 1..Len(users) :
    i # j => users[i].username # users[j].username

SortedDesc(b) ==
  \A i, j \in 1..Len(b) : i < j => b[i].timestamp >= b[j].timestamp

\* No reading left out is newer than one returned.
Newest(b, s) ==
  \A x \in Range(b) : \A y \in Range(s) \ Range(b) : x.timestamp >= y.timestamp

NoRepeat(b) == \A i, j \in 1..Len(b) : i < j => b[i] # b[j]

\* The limits tried on every reachable store.
LimitRange == ((0 - (MaxMsgs + 1))..(MaxMsgs + 1)) \cup {DefaultLimit}

RecentAsCoded(b, s, k) ==
  /\ Len(b) = IF k >= 0 THEN Min(k, Len(s)) ELSE Max(Len(s) + k, 0)
  /\ Range(b) \subseteq Range(s)
  /\ NoRepeat(b)
  /\ SortedDesc(b)
  /\ Newest(b, s)

IsPositiveIntegerText(q) ==
  /\ q # NoParam
  /\ q # <<>>
  /\ \A i \in 1..Len(q) : q[i] \in Digits
  /\ \E i \in 1..Len(q) : q[i] # "0"

\* C7: a missing, non-numeric or non-positive limit is answered like a
\* request without limit, with the newest min(20, N) readings.
C7_NonPositiveLimitIsDefault ==
  (res.route = "recent" /\ ~IsPositiveIntegerText(res.query)) =>
    res.body = getRecentSensorReadings(StoreAt(res.at), DefaultLimit)

\* C8 as stated: 404 on an empty store, and after an intake the latest
\* route answers 200 with the record that intake stored.
C8_LatestIsJustStored ==
  res.route = "latest" =>
    IF res.at = 0
    THEN res.status = 404
    ELSE res.status = 200 /\ res.body = <<sensorReadings[res.at]>>

AllNumbers(message) ==
  /\ message.kind = "object"
  /\ message.suhuDHT.t = "number"
  /\ message.suhuLM35.t = "number"
  /\ message.LED.t = "number"

\* The step in which the oldest queued job, a broadcast, runs.
BroadcastStep ==
  /\ jobs # <<>>
  /\ Head(jobs).kind = "broadcast"
  /\ jobs' = Tail(jobs)

Received(log, reading) ==
  \E i \in 1..Len(log) : log[i].type = "sensor_data" /\ log[i].data = reading

C8_LatestRoute ==
  res.route = "latest" =>
    IF res.at = 0
    THEN res.status = 404
    ELSE /\ res.status = 200
         /\ Len(res.body) = 1
         /\ res.body[1] \in Range(StoreAt(res.at))
         /\ HasMaxStamp(res.body[1], StoreAt(res.at))
         /\ (\A i \in 1..(res.at - 1) :
               sensorReadings[i].timestamp < sensorReadings[res.at].timestamp)
              => res.body[1] = sensorReadings[res.at]

C8_IntakeStoresFields ==
  Len(arrivals') = Len(arrivals) + 1 =>
    \A message \in Messages :
      (AllNumbers(message) /\ \E date \in Dates(sensorReadings) : MqttMessage(message, date)) =>
        /\ Len(sensorReadings') = Len(sensorReadings) + 1
        /\ SubSeq(sensorReadings', 1, Len(sensorReadings)) = sensorReadings
        /\ LET r == sensorReadings'[Len(sensorReadings')]
           IN  /\ r.dhtTemperature = message.suhuDHT
               /\ r.lm35Temperature = message.suhuLM35
               /\ r.ledLevel = message.LED

C8_ClientsReceive ==
  BroadcastStep =>
    /\ Head(jobs).reading \in Range(sensorReadings)
    /\ \A ws \in wsConnections :
         readyState[ws] = "OPEN" =>
           /\ Len(sent'[ws]) = Len(sent[ws]) + 1
           /\ sent'[ws][Len(sent'[ws])].type = "sensor_data"
           /\ sent'[ws][Len(sent'[ws])].data = Head(jobs).reading

\* C8 (amended): the latest route answers 404 while the store is empty;
\* an intake of {suhuDHT: a, suhuLM35: b, LED: c} stores a reading with
\* those three values; the latest route then answers 200 with a stored
\* record of maximal timestamp, which is the record just stored whenever
\* its timestamp is strictly later than that of every earlier reading; and
\* every open registered client is sent a sensor_data envelope carrying the
\* stored record.
C8_LatestAfterIntake ==
  /\ []C8_LatestRoute
  /\ [][C8_IntakeStoresFields]_vars
  /\ [][C8_ClientsReceive]_vars

\* One intake, answered by the route and delivered to a client.
C8_Witness ==
  /\ res.route = "latest"
  /\ res.status = 200
  /\ res.at >= 1
  /\ res.body = <<sensorReadings[res.at]>>
  /\ sensorReadings[res.at].dhtTemperature = Num(265)
  /\ sensorReadings[res.at].lm35Temperature = Num(271)
  /\ sensorReadings[res.at].ledLevel = Num(2)
  /\ \E ws \in wsConnections : Received(sent[ws], sensorReadings[res.at])

IsStatus(e) == e.type = "connection_status" /\ e.status = "connected"

BroadcastsOf(log) == {i \in 1..Len(log) : log[i].via = "broadcast"}

OpenRegistered == {ws \in wsConnections : readyState[ws] = "OPEN"}

\* A log grown by one sensor_data envelope carrying the reading.
GotData(before, after, reading) ==
  /\ Len(after) = Len(before) + 1
  /\ SubSeq(after, 1, Len(before)) = before
  /\ after[Len(after)].type = "sensor_data"
  /\ after[Len(after)].data = reading

C1_FanOut ==
  BroadcastStep =>
    /\ Head(jobs).reading \in Range(sensorReadings)
    /\ \A ws \in Handles :
         IF ws \in OpenRegistered
         THEN GotData(sent[ws], sent'[ws], Head(jobs).reading)
         ELSE sent'[ws] = sent[ws]

C1_OncePerReading ==
  \A ws \in Handles :
    /\ readyState[ws] = "NONE" => sent[ws] = <<>>
    /\ \A i, j \in BroadcastsOf(sent[ws]) : i # j => sent[ws][i].data # sent[ws][j].data
    /\ \A i \in BroadcastsOf(sent[ws]) : sent[ws][i].data \in Range(sensorReadings)

\* C1: the broadcast of one stored reading sends one sensor_data envelope
\* with that reading to every registered connection that is open (K sends
\* for K of them) and nothing to any other handle; no connection gets the
\* same reading from two broadcasts.
C1_OneSendPerOpenConnection ==
  /\ [][C1_FanOut]_vars
  /\ []C1_OncePerReading

\* Every client (K = MaxConns) holds the broadcast of one and the same reading.
C1_Witness ==
  \E r \in Range(sensorReadings) :
    \A ws \in Handles :
      \E i \in BroadcastsOf(sent[ws]) : sent[ws][i].data = r

SnapshotsOf(log) == {i \in 1..Len(log) : log[i].via = "snapshot"}

SnapshotPending(ws) ==
  \E i \in 1..Len(jobs) : jobs[i].kind = "snapshot" /\ jobs[i].ws = ws

C2_Log ==
  \A ws \in Handles :
    IF readyState[ws] = "NONE"
    THEN sent[ws] = <<>>
    ELSE /\ Len(sent[ws]) >= 1
         /\ IsStatus(sent[ws][1])
         /\ \A i \in 2..Len(sent[ws]) : sent[ws][i].type = "sensor_data"
         /\ SnapshotsOf(sent[ws]) \subseteq {2}
         /\ SnapshotPending(ws) => Len(sent[ws]) = 1
         /\ \A i \in SnapshotsOf(sent[ws]) : \A j \in BroadcastsOf(sent[ws]) :
              sent[ws][i].data # sent[ws][j].data

C2_Connect ==
  \A ws \in Handles :
    (readyState[ws] = "NONE" /\ readyState'[ws] # "NONE") =>
      /\ Len(sent'[ws]) = 1
      /\ IsStatus(sent'[ws][1])
      /\ ws \in wsConnections'
      /\ \E i \in 1..Len(jobs') : jobs'[i].kind = "snapshot" /\ jobs'[i].ws = ws

\* The step in which the oldest queued job, a snapshot, runs.
SnapshotStep ==
  /\ jobs # <<>>
  /\ Head(jobs).kind = "snapshot"
  /\ jobs' = Tail(jobs)

C2_Snapshot ==
  SnapshotStep =>
    LET ws == Head(jobs).ws
    IN  /\ \A other \in Handles \ {ws} : sent'[other] = sent[other]
        /\ readyState[ws] = "OPEN"
        /\ Len(sent[ws]) = 1
        /\ IF sensorReadings = <<>>
           THEN sent'[ws] = sent[ws]
           ELSE /\ Len(sent'[ws]) = 2
                /\ sent'[ws][1] = sent[ws][1]
                /\ sent'[ws][2].type = "sensor_data"
                /\ sent'[ws][2].data \in Range(sensorReadings)
                /\ HasMaxStamp(sent'[ws][2].data, sensorReadings)

\* C2: a connecting client is sent exactly one connection_status envelope
\* ("connected"), first of all; if a reading is stored it is next sent
\* exactly one snapshot sensor_data envelope with a stored reading of
\* maximal timestamp, which no broadcast sends it again; if none is stored
\* it is sent no snapshot; no intake step comes between the connect handler
\* and its snapshot.
C2_StatusThenSnapshot ==
  /\ []C2_Log
  /\ [][C2_Connect]_vars
  /\ [][C2_Snapshot]_vars

\* A client that connected after a reading was stored and got its snapshot.
C2_Witness ==
  \E ws \in Handles :
    /\ Len(sent[ws]) >= 2
    /\ IsStatus(sent[ws][1])
    /\ sent[ws][2].via = "snapshot"
    /\ sent[ws][2].data \in Range(sensorReadings)

\* Text that is no JSON, or an object with a field of the wrong shape.
Malformed(message) ==
  \/ message.kind = "garbage"
  \/ /\ message.kind = "object"
     /\ \/ message.suhuDHT.t = "string"
        \/ message.suhuLM35.t = "string"
        \/ message.LED.t = "string"

\* The step is the handling of one more message.
MessageStep == Len(arrivals') = Len(arrivals) + 1

C3_MalformedDropped ==
  MessageStep =>
    \A message \in Messages :
      (Malformed(message) /\ \E date \in Dates(sensorReadings) : MqttMessage(message, date)) =>
        UNCHANGED <<sensorReadings, currentReadingId, wsConnections, readyState,
                    sent, jobs>>

C3_ValidAfterMalformed ==
  (MessageStep /\ arrivals # <<>> /\ arrivals[Len(arrivals)] = 0) =>
    \A message \in Messages :
      (AllNumbers(message) /\ \E date \in Dates(sensorReadings) : MqttMessage(message, date)) =>
        /\ Len(sensorReadings') = Len(sensorReadings) + 1
        /\ Len(jobs') = Len(jobs) + 1
        /\ jobs'[Len(jobs')].kind = "broadcast"
        /\ jobs'[Len(jobs')].reading = sensorReadings'[Len(sensorReadings')]

\* C3: handling a malformed payload stores nothing, queues and sends
\* nothing and leaves the id counter and the connection set as they were;
\* a valid payload that follows a dropped one is stored and its broadcast
\* is queued.
C3_MalformedPayloadIsDropped ==
  /\ [][C3_MalformedDropped]_vars
  /\ [][C3_ValidAfterMalformed]_vars

\* A dropped message, then a stored one whose reading reached a client.
C3_Witness ==
  \E k \in 1..(Len(arrivals) - 1) :
    /\ arrivals[k] = 0
    /\ arrivals[k + 1] # 0
    /\ \E ws \in Handles :
         \E i \in BroadcastsOf(sent[ws]) : sent[ws][i].data.id = arrivals[k + 1]

\* C9 as stated: a message is handled only after the broadcast of every
\* earlier message has run, so two broadcasts are never queued together.
C9_HandledToCompletion ==
  Cardinality({i \in 1..Len(jobs) : jobs[i].kind = "broadcast"}) <= 1

\* C9 (amended): messages are taken in arrival order and the store write of
\* each is done before the next is handled, but its broadcast is a queued
\* continuation that may still wait when the next message is handled; the
\* continuations run in arrival order, so an earlier valid message gets the
\* smaller id and no connection is sent a later reading before an earlier one.
C9_ArrivalOrderKept ==
  /\ \A i, j \in 1..Len(arrivals) :
       (i < j /\ arrivals[i] # 0 /\ arrivals[j] # 0) => arrivals[i] < arrivals[j]
  /\ \A i \in 1..Len(arrivals) :
       arrivals[i] # 0 => \E r \in Range(sensorReadings) : r.id = arrivals[i]
  /\ \A i, j \in 1..Len(jobs) :
       (i < j /\ jobs[i].kind = "broadcast" /\ jobs[j].kind = "broadcast")
         => jobs[i].reading.id < jobs[j].reading.id
  /\ \A ws \in Handles :
       /\ \A i, j \in BroadcastsOf(sent[ws]) :
            i < j => sent[ws][i].data.id < sent[ws][j].data.id
       /\ \A i \in BroadcastsOf(sent[ws]) : \A k \in 1..Len(jobs) :
            jobs[k].kind = "broadcast" => sent[ws][i].data.id < jobs[k].reading.id

\* Two messages in a row, both broadcasts delivered to one client in order.
C9_Witness ==
  /\ Len(arrivals) >= 2
  /\ \E ws \in Handles :
       \E i, j \in BroadcastsOf(sent[ws]) :
         /\ i < j
         /\ sent[ws][i].data.id = 1
         /\ sent[ws][j].data.id = 2

C11_Membership ==
  \A ws \in Handles :
    /\ readyState[ws] = "NONE" => ws \notin wsConnections
    /\ readyState[ws] = "OPEN" => ws \in wsConnections
    /\ readyState[ws] = "CLOSED" => ws \notin wsConnections

C11_Signals ==
  /\ \A ws \in Handles :
       WsConnect(ws) => ws \notin wsConnections /\ wsConnections' = wsConnections \cup {ws}
  /\ \A ws \in Handles :
       (WsClose(ws) \/ WsError(ws)) =>
         /\ wsConnections' = wsConnections \ {ws}
         /\ ws \notin wsConnections => wsConnections' = wsConnections
  /\ (\A ws \in Handles : ~WsConnect(ws) /\ ~WsClose(ws) /\ ~WsError(ws))
       => wsConnections' = wsConnections

\* C11: the connection set holds exactly the handles that connected and have
\* not signalled close or error: connect adds the handle, the first close
\* or error removes it and only it, a further close or error for it changes
\* nothing, and no other step touches the set.
C11_SetTracksLiveHandles ==
  /\ []C11_Membership
  /\ [][C11_Signals]_vars

\* One handle has signalled error and then close, the other is still in.
C11_Witness ==
  \E ws, other \in Handles :
    /\ ws # other
    /\ readyState[ws] = "CLOSED"
    /\ ws \notin wsConnections
    /\ other \in wsConnections

C12_OnlyOpenRegistered ==
  BroadcastStep =>
    /\ \A ws \in Handles :
         sent'[ws] # sent[ws] => ws \in wsConnections /\ readyState[ws] = "OPEN"
    /\ \A ws \in wsConnections :
         readyState[ws] # "OPEN" => sent'[ws] = sent[ws] /\ ws \in wsConnections'
    /\ wsConnections' = wsConnections
    /\ readyState' = readyState

\* C12: a broadcast sends only to handles that are in the connection set and
\* open; a registered handle in another state gets nothing and stays in the
\* set; the broadcast leaves the connection set as it was.
C12_BroadcastSkipsNonOpen == [][C12_OnlyOpenRegistered]_vars

\* A client that connected to an empty store is closing and still
\* registered; every reading stored since has been broadcast, to another
\* client, and this one got none.
C12_Witness ==
  /\ jobs = <<>>
  /\ sensorReadings # <<>>
  /\ \E ws \in wsConnections, other \in Handles :
       /\ readyState[ws] = "CLOSING"
       /\ Len(sent[ws]) = 1
       /\ BroadcastsOf(sent[other]) # {}

StoreRejectedStep ==
  /\ MessageStep
  /\ arrivals'[Len(arrivals')] = -1

LastRejected == arrivals # <<>> /\ arrivals[Len(arrivals)] = -1

C13_IntakeDropsAndGoesOn ==
  /\ StoreRejectedStep =>
       /\ sensorReadings' = sensorReadings
       /\ currentReadingId' = currentReadingId
       /\ jobs' = jobs
       /\ sent' = sent
  /\ (MessageStep /\ LastRejected) =>
       \A message \in Messages : \A date \in Dates(sensorReadings) :
         (~Dropped(message) /\ MqttMessage(message, date)) =>
           /\ Len(sensorReadings') = Len(sensorReadings) + 1
           /\ jobs' = Append(jobs, [kind |-> "broadcast", ws |-> 0,
                                    reading |-> sensorReadings'[Len(sensorReadings')]])

C13_QueryAnswers500 ==
  res' # res =>
    /\ \A query \in Queries :
         GetRecentStoreRejects(query) =>
           /\ res'.status = 500
           /\ res'.body = [error |-> "Failed to fetch readings"]
    /\ GetLatestStoreRejects =>
         /\ res'.status = 500
         /\ res'.body = [error |-> "Failed to fetch latest reading"]
    /\ UNCHANGED <<sensorReadings, currentReadingId, jobs, sent, arrivals>>

\* Nothing stored, queued or sent stems from a rejected call: the store
\* holds one reading per stored message, and every queued or sent broadcast
\* carries a stored reading.
C13_NoTraceOfRejected ==
  /\ Len(sensorReadings) = Cardinality({i \in 1..Len(arrivals) : arrivals[i] > 0})
  /\ \A i \in 1..Len(jobs) :
       jobs[i].kind = "broadcast" => jobs[i].reading \in Range(sensorReadings)
  /\ \A ws \in Handles : \A i \in BroadcastsOf(sent[ws]) :
       sent[ws][i].data \in Range(sensorReadings)

\* C13: when the store rejects a call, only the caller sees it.  The
\* intake drops that message (nothing stored, no broadcast) and handles the
\* next one as usual; a route answers 500 with an error body; the call is
\* not made again.
C13_FailureStaysWithCaller ==
  /\ [][C13_IntakeDropsAndGoesOn]_vars
  /\ [][C13_QueryAnswers500]_vars
  /\ []C13_NoTraceOfRejected

\* A message lost to a rejected store call, the next one stored and
\* broadcast to a client, and a route that answered 500 in between or after.
C13_Witness ==
  /\ res.route \in {"recent", "latest"}
  /\ res.status = 500
  /\ \E k \in 1..(Len(arrivals) - 1) :
       /\ arrivals[k] = -1
       /\ arrivals[k + 1] > 0
       /\ \E ws \in Handles :
            \E i \in BroadcastsOf(sent[ws]) : sent[ws][i].data.id = arrivals[k + 1]

\* The step stores one reading without temperatures and with level 0, and
\* queues its broadcast.
BlankStored ==
  /\ Len(sensorReadings') = Len(sensorReadings) + 1
  /\ SubSeq(sensorReadings', 1, Len(sensorReadings)) = sensorReadings
  /\ LET reading == sensorReadings'[Len(sensorReadings')]
     IN  /\ reading.dhtTemperature = Null
         /\ reading.lm35Temperature = Null
         /\ reading.ledLevel = Num(0)
         /\ jobs' = Append(jobs, [kind |-> "broadcast", ws |-> 0,
                                  reading |-> reading])

Handled(message) == \E date \in Dates(sensorReadings) : MqttMessage(message, date)

C14_Accepted ==
  MessageStep =>
    \A message \in AbsentOrNull : Handled(message) => BlankStored

\* C14 as stated: whichever of the three fields are absent or null, the
\* message is stored as one reading with null temperatures and level 0 and
\* its broadcast follows.
C14_AnyCombinationAccepted == [][C14_Accepted]_vars

C14_AcceptedUnlessLedNull ==
  MessageStep =>
    \A message \in AbsentOrNull :
      Handled(message) =>
        IF message.LED = Undefined
        THEN BlankStored
        ELSE UNCHANGED <<sensorReadings, currentReadingId, jobs, sent>>

\* C14 (amended): a message whose temperatures are each absent or null and
\* whose LED is absent is stored as one reading with null temperatures and
\* level 0, and its broadcast follows; with LED null the message is refused
\* by the schema and dropped, whatever the temperatures are.
C14_AbsentLedAccepted == [][C14_AcceptedUnlessLedNull]_vars

\* A message with LED null was dropped, and a client holds the broadcast of
\* a reading without temperatures and with level 0.
C14_Witness ==
  /\ \E k \in 1..Len(arrivals) : arrivals[k] = 0
  /\ \E ws \in Handles :
       \E i \in BroadcastsOf(sent[ws]) :
         /\ sent[ws][i].data.dhtTemperature = Null
         /\ sent[ws][i].data.lm35Temperature = Null
         /\ sent[ws][i].data.ledLevel = Num(0)

C15_SendTargets ==
  sent' # sent =>
    \A ws \in Handles :
      sent'[ws] # sent[ws] =>
        /\ ws \in wsConnections'
        /\ readyState'[ws] = "OPEN"
        /\ Len(sent'[ws]) = Len(sent[ws]) + 1
        /\ sent'[ws][Len(sent'[ws])].open

C15_EveryEnvelopeToOpen ==
  \A ws \in Handles : \A i \in 1..Len(sent[ws]) : sent[ws][i].open

\* C15: every send (connection_status, snapshot, broadcast) goes to a handle
\* that is in the connection set and open at the moment of the send, however
\* connects, snapshot fetches, close and error signals and broadcasts
\* interleave.
C15_SendsOnlyToLiveHandles ==
  /\ [][C15_SendTargets]_vars
  /\ []C15_EveryEnvelopeToOpen

\* A client got its status and the snapshot of one reading and then left
\* the set; a later reading was broadcast to another client and not to it.
C15_Witness ==
  \E ws, other \in Handles :
    /\ ws \notin wsConnections
    /\ \E i \in SnapshotsOf(sent[ws]) : \E j \in BroadcastsOf(sent[other]) :
         /\ sent[other][j].data.timestamp > sent[ws][i].data.timestamp
         /\ ~Received(sent[ws], sent[other][j].data)
====
